---- MODULE Spec2Model ----
(***************************************************************************)
(* Single-decree Paxos of src/paxos: proposers, acceptors and learners     *)
(* exchanging PREPARE / PROMISE / ACCEPT / LEARN / NACK messages over the  *)
(* lossy, reordering transport of src/network/network.py.                  *)
(*                                                                         *)
(* A node id "<role>_<n>" is the pair <<role, n>>.  Python's None is the   *)
(* string "None" for an operation and NoTimestamp for a timestamp.         *)
(* In Spec, FairSpec, ReplaySpec and StraySpec every message handler runs   *)
(* as one step; the one thing of the proposer's lock that such a step can  *)
(* observe, a handler that blocks forever while holding it, is the         *)
(* variable proposal_lock.  ThreadSpec follows the worker threads of       *)
(* Node._listen and the threads that call Proposer.propose through the     *)
(* statements that read and write the fields the threads share.            *)
(***************************************************************************)
EXTENDS Integers, Sequences, FiniteSets, Bags, TLC

\* ------------------------------------------------------------------ bounds
MaxProposers == 2
MaxAcceptors == 3
MaxLearners == 2
\* messages a lossy transport holds at a time
MaxInFlight == 3

\* ------------------------------------------------------- program constants
\* proposer.py:18  timestamp_base = node_number * 1000000
TimestampBand == 1000000
\* proposer.py:14  next_timestamp = 1
FirstCounter == 1
\* acceptor.py:12  highest_promised_timestamp = 0
InitialPromised == 0
\* proposer.py:39  "highest_accepted_timestamp": 0
InitialHighestAccepted == 0
\* acceptor.py:14  accepted_timestamp: Optional[int] = None
NoTimestamp == -1

None == "None"
Operations == {"a", "b"}

PREPARE == "PREPARE"
PROMISE == "PROMISE"
ACCEPT == "ACCEPT"
LEARN == "LEARN"
NACK == "NACK"

VARIABLES
  config,                       \* the roster every node is constructed with
  message_loss,                 \* Network.message_loss_probability > 0
  script,                       \* the commands the driver has still to issue
  failed_nodes,                 \* Network.failed_nodes
  inflight,                     \* bag of messages scheduled for delivery
  highest_promised_timestamp,   \* per acceptor
  accepted_timestamp,           \* per acceptor
  accepted_operation,           \* per acceptor
  next_timestamp,               \* per proposer
  active_proposals,             \* per proposer: timestamp -> proposal_data
  proposal_lock,                \* per proposer: TRUE when held by a blocked handler
  accepted_operations,          \* per learner: (timestamp, operation) -> senders
  chosen_operations,            \* per learner: set of (timestamp, operation)
  chosen_operation_sequence,    \* per learner
  callback_log,                 \* per learner: arguments of on_chosen_operation
  proposed,                     \* history: the propose calls, with the acceptors up at the call
  sent,                         \* history: every message handed to send_message
  counted_promises,             \* history: per proposer, PROMISEs _handle_promise counted
  accept_broadcasts,            \* history: the _send_accept calls
  accept_log,                   \* history: ACCEPTs handled by acceptors
  workers,                      \* bag of handler threads between two statements
  callers                       \* propose calls between two statements

vars == <<config, message_loss, script, failed_nodes, inflight,
          highest_promised_timestamp, accepted_timestamp, accepted_operation,
          next_timestamp, active_proposals, proposal_lock,
          accepted_operations, chosen_operations, chosen_operation_sequence,
          callback_log, proposed, sent, counted_promises, accept_broadcasts,
          accept_log, workers, callers>>

netVars == <<inflight, sent>>
acceptorVars == <<highest_promised_timestamp, accepted_timestamp, accepted_operation, accept_log>>
proposerVars == <<next_timestamp, active_proposals, proposal_lock, proposed,
                  counted_promises, accept_broadcasts, script>>
learnerVars == <<accepted_operations, chosen_operations, chosen_operation_sequence,
                 callback_log>>
envVars == <<config, message_loss, failed_nodes>>
threadVars == <<workers, callers>>

\* --------------------------------------------------------------- the roster
ProposerId(n) == <<"proposer", n>>
AcceptorId(n) == <<"acceptor", n>>
LearnerId(n) == <<"learner", n>>

AllProposers == {ProposerId(n) : n \in 1..MaxProposers}
AllAcceptors == {AcceptorId(n) : n \in 1..MaxAcceptors}
AllLearners == {LearnerId(n) : n \in 1..MaxLearners}

\* generate_default_config: proposer_1..proposer_k, acceptor_1.., learner_1..
DefaultConfig(np, na, nl) ==
  [proposers |-> {ProposerId(n) : n \in 1..np},
   acceptors |-> {AcceptorId(n) : n \in 1..na},
   learners |-> {LearnerId(n) : n \in 1..nl}]

\* len(self.acceptors)
AcceptorCount == Cardinality(config.acceptors)

\* int(node_id.split('_')[1])
NodeNumber(id) == id[2]

\* -------------------------------------------------------------- messages
Message(type, ts, from, to, op, ats, aop) ==
  [msg_type |-> type, timestamp |-> ts, sender_id |-> from, receiver_id |-> to,
   operation |-> op, accepted_timestamp |-> ats, accepted_operation |-> aop]

\* Node.send_message: a receiver that is in no roster mapping is not sent to.
KnownReceiver(m) ==
  m.receiver_id \in (config.proposers \cup config.acceptors \cup config.learners)

\* Network.send_message: messages from or to a failed node are dropped.
Sendable(msgs) ==
  {m \in msgs : /\ KnownReceiver(m)
                /\ m.sender_id \notin failed_nodes
                /\ m.receiver_id \notin failed_nodes}

\* Network.send_message: random.random() < message_loss_probability drops a
\* message; the rest are scheduled (threading.Timer) for delivery.  A lossy
\* transport is followed while at most MaxInFlight messages are scheduled.
LossChoices(pending, msgs) ==
  IF message_loss
    THEN {lost \in SUBSET msgs :
            BagCardinality(pending) + Cardinality(msgs \ lost) <= MaxInFlight}
    ELSE {{}}

Transmit(pending, msgs) ==
  /\ sent' = sent \cup msgs
  /\ \E lost \in LossChoices(pending, Sendable(msgs)) :
        inflight' = pending (+) SetToBag(Sendable(msgs) \ lost)

\* send_message for every message of msgs.
Send(msgs) == Transmit(inflight, msgs)

\* The same by the handler of the delivered message m, which leaves the bag.
ReceiveAndSend(m, msgs) == Transmit(inflight (-) SetToBag({m}), msgs)

\* Network._deliver_message hands m to the receiver's handler unless the
\* receiver has failed meanwhile.
Deliverable(m) ==
  /\ BagIn(m, inflight)
  /\ m.receiver_id \notin failed_nodes

\* --------------------------------------------------------------- driver
\* The driver's commands: Proposer.propose(op) on a proposer, and a round of
\* FailureSimulator.manually_fail_node / manually_recover_node calls that
\* leaves exactly the nodes of a set failed.
ProposeCmd(p, op) == [cmd |-> "propose", node |-> p, operation |-> op, nodes |-> {}]
IsolateCmd(S) == [cmd |-> "isolate", node |-> None, operation |-> None, nodes |-> S]

\* A datagram of the given type that reaches its receiver's socket once more.
ReplayCmd(type) == [cmd |-> "replay", node |-> None, operation |-> type, nodes |-> {}]

\* A datagram of the given type that an acceptor's address sends to the socket
\* of a proposer.
StrayCmd(type) == [cmd |-> "stray", node |-> None, operation |-> type, nodes |-> {}]

NextCommand(c) == script # <<>> /\ Head(script) = c

\* ------------------------------------------------------------- proposer
\* A ballot that leaves out the proposer's number.
NextTimestamp_shared(p, counter) == TimestampBand + counter

\* Proposer._get_next_timestamp
NextTimestamp(p, counter) == NodeNumber(p) * TimestampBand + counter

\* proposal_data of Proposer.propose
NewProposal(op, ts) ==
  [operation |-> op, timestamp |-> ts, phase |-> 1, promises |-> 0, nacks |-> 0,
   acceptances |-> 0,
   highest_accepted_timestamp |-> InitialHighestAccepted,
   highest_accepted_operation |-> None,
   responded_acceptors |-> {},
   acceptor_count |-> AcceptorCount]

\* self.active_proposals[timestamp] = proposal_data
Register(table, ts, pd) ==
  [t \in DOMAIN table \cup {ts} |-> IF t = ts THEN pd ELSE table[t]]

\* Proposer._send_prepare
PrepareMessages(p, ts) ==
  {Message(PREPARE, ts, p, a, None, NoTimestamp, None) : a \in config.acceptors}

\* An ACCEPT broadcast that sends the first acceptor the caller's operation
\* and the others "b".
AcceptMessages_mixed(p, ts, op) ==
  {Message(ACCEPT, ts, p, a, IF a = AcceptorId(1) THEN op ELSE "b", NoTimestamp, None) :
     a \in config.acceptors}

\* Proposer._send_accept
AcceptMessages(p, ts, op) ==
  {Message(ACCEPT, ts, p, a, op, NoTimestamp, None) : a \in config.acceptors}

\* Proposer.propose.  The counter is advanced before the lock is taken; a call
\* made while a blocked handler holds proposal_lock never returns and neither
\* registers its record nor sends PREPARE.
Propose(p, op) ==
  LET ts == NextTimestamp(p, next_timestamp[p]) IN
  /\ NextCommand(ProposeCmd(p, op))
  /\ script' = Tail(script)
  /\ next_timestamp' = [next_timestamp EXCEPT ![p] = @ + 1]
  /\ proposed' = proposed \cup
       {[proposer |-> p, timestamp |-> ts, operation |-> op,
         reachable |-> config.acceptors \ failed_nodes]}
  /\ IF proposal_lock[p]
       THEN UNCHANGED <<active_proposals, netVars>>
       ELSE /\ active_proposals' =
                 [active_proposals EXCEPT ![p] = Register(@, ts, NewProposal(op, ts))]
            /\ Send(PrepareMessages(p, ts))
  /\ UNCHANGED <<proposal_lock, counted_promises, accept_broadcasts>>
  /\ UNCHANGED <<acceptorVars, learnerVars, envVars>>
  /\ UNCHANGED threadVars

\* A majority test that half of the acceptors already passes.
HasMajority_half(count, acceptor_count) == count >= acceptor_count \div 2

\* promises > acceptor_count // 2, nacks > acceptor_count // 2
HasMajority(count, acceptor_count) == count > acceptor_count \div 2

\* _handle_promise: if message.accepted_timestamp is not None and it is greater
\* than the highest seen, remember the reported pair.
RecordPromise(pd, m) ==
  LET counted == [pd EXCEPT !.promises = @ + 1] IN
  IF /\ m.accepted_timestamp # NoTimestamp
     /\ m.accepted_timestamp > pd.highest_accepted_timestamp
    THEN [counted EXCEPT !.highest_accepted_timestamp = m.accepted_timestamp,
                         !.highest_accepted_operation = m.accepted_operation]
    ELSE counted

\* A selection that takes the reported operation even when none was reported.
SelectOperation_reported(pd) == pd.highest_accepted_operation

\* _handle_promise: the operation of the ACCEPT broadcast.
SelectOperation(pd) ==
  IF pd.highest_accepted_operation # None
    THEN pd.highest_accepted_operation
    ELSE pd.operation

\* A phase test that a record already in phase 2 passes too.
StartsPhase2_late(pd) ==
  /\ HasMajority(pd.promises, pd.acceptor_count)
  /\ pd.phase \in {1, 2}

\* A phase change without the phase = 1 test.
StartsPhase2_again(pd) == HasMajority(pd.promises, pd.acceptor_count)

\* _handle_promise: phase 2 starts on the promise that completes a majority
\* while the record is still in phase 1.
StartsPhase2(pd) ==
  /\ HasMajority(pd.promises, pd.acceptor_count)
  /\ pd.phase = 1

\* Checks that apply the responded_acceptors test to PROMISEs only.
Dropped_promised(p, m) ==
  IF m.timestamp \notin DOMAIN active_proposals[p]
    THEN TRUE
    ELSE /\ m.msg_type = PROMISE
         /\ m.sender_id \in active_proposals[p][m.timestamp].responded_acceptors

\* Checks that leave out the responded_acceptors test.
Dropped_unknown(p, m) == m.timestamp \notin DOMAIN active_proposals[p]

\* The first checks of Proposer._process_message, under proposal_lock.
Dropped(p, m) ==
  IF m.timestamp \notin DOMAIN active_proposals[p]
    THEN TRUE
    ELSE m.sender_id \in active_proposals[p][m.timestamp].responded_acceptors

\* Proposer._process_message for a message whose thread can never take
\* proposal_lock: the worker blocks forever and the message has no effect.
ProposerBlocked(m) ==
  LET p == m.receiver_id IN
  /\ Deliverable(m)
  /\ p \in config.proposers
  /\ proposal_lock[p]
  /\ ReceiveAndSend(m, {})
  /\ UNCHANGED <<proposerVars, acceptorVars, learnerVars, envVars>>
  /\ UNCHANGED threadVars

\* Proposer._process_message: unknown proposal or duplicate response.
ProposerDrop(m) ==
  LET p == m.receiver_id IN
  /\ Deliverable(m)
  /\ p \in config.proposers
  /\ ~proposal_lock[p]
  /\ Dropped(p, m)
  /\ ReceiveAndSend(m, {})
  /\ UNCHANGED <<proposerVars, acceptorVars, learnerVars, envVars>>
  /\ UNCHANGED threadVars

\* Proposer._process_message -> _handle_promise
HandlePromise(m) ==
  LET p == m.receiver_id
      pd0 == active_proposals[p][m.timestamp]
      pd1 == RecordPromise([pd0 EXCEPT !.responded_acceptors = @ \cup {m.sender_id}], m)
      counted == counted_promises[p] \cup {m}
  IN
  /\ Deliverable(m)
  /\ p \in config.proposers
  /\ ~proposal_lock[p]
  /\ ~Dropped(p, m)
  /\ m.msg_type = PROMISE
  /\ counted_promises' = [counted_promises EXCEPT ![p] = counted]
  /\ IF StartsPhase2(pd1)
       THEN /\ active_proposals' =
                 [active_proposals EXCEPT ![p][m.timestamp] = [pd1 EXCEPT !.phase = 2]]
            /\ accept_broadcasts' = accept_broadcasts \cup
                 {[proposer |-> p, timestamp |-> pd1.timestamp,
                   operation |-> SelectOperation(pd1),
                   original |-> pd1.operation,
                   promises |-> {c \in counted : c.timestamp = pd1.timestamp}]}
            /\ ReceiveAndSend(m, AcceptMessages(p, pd1.timestamp, SelectOperation(pd1)))
       ELSE /\ active_proposals' = [active_proposals EXCEPT ![p][m.timestamp] = pd1]
            /\ UNCHANGED accept_broadcasts
            /\ ReceiveAndSend(m, {})
  /\ UNCHANGED <<next_timestamp, proposal_lock, proposed, script>>
  /\ UNCHANGED <<acceptorVars, learnerVars, envVars>>
  /\ UNCHANGED threadVars

\* Proposer._process_message -> _handle_nack.  On a NACK majority the handler
\* takes proposal_lock (a threading.Lock, not reentrant) while
\* _process_message already holds it: the worker blocks for ever with the lock
\* held, before active_proposals.pop runs.
HandleNack(m) ==
  LET p == m.receiver_id
      pd0 == active_proposals[p][m.timestamp]
      pd1 == [pd0 EXCEPT !.responded_acceptors = @ \cup {m.sender_id},
                         !.nacks = @ + 1]
  IN
  /\ Deliverable(m)
  /\ p \in config.proposers
  /\ ~proposal_lock[p]
  /\ ~Dropped(p, m)
  /\ m.msg_type = NACK
  /\ active_proposals' = [active_proposals EXCEPT ![p][m.timestamp] = pd1]
  /\ proposal_lock' = [proposal_lock EXCEPT ![p] = HasMajority(pd1.nacks, pd1.acceptor_count)]
  /\ ReceiveAndSend(m, {})
  /\ UNCHANGED <<next_timestamp, proposed, counted_promises, accept_broadcasts, script>>
  /\ UNCHANGED <<acceptorVars, learnerVars, envVars>>
  /\ UNCHANGED threadVars

\* Proposer._process_message for a message of an active proposal, from a
\* sender that has not responded, that is neither PROMISE nor NACK: the sender
\* is added to responded_acceptors before the message type is looked at.
HandleForeign(m) ==
  LET p == m.receiver_id
      pd0 == active_proposals[p][m.timestamp]
  IN
  /\ Deliverable(m)
  /\ p \in config.proposers
  /\ ~proposal_lock[p]
  /\ ~Dropped(p, m)
  /\ m.msg_type \notin {PROMISE, NACK}
  /\ active_proposals' =
       [active_proposals EXCEPT
          ![p][m.timestamp] = [pd0 EXCEPT !.responded_acceptors = @ \cup {m.sender_id}]]
  /\ ReceiveAndSend(m, {})
  /\ UNCHANGED <<next_timestamp, proposal_lock, proposed, counted_promises,
                 accept_broadcasts, script>>
  /\ UNCHANGED <<acceptorVars, learnerVars, envVars>>
  /\ UNCHANGED threadVars

\* ------------------------------------------------------------- acceptor
\* A PREPARE test that grants the promised ballot again.
PrepareGranted_tie(ts, promised) == ts >= promised

\* A PREPARE test that also grants a ballot below the promised one.
PrepareGranted_any(ts, promised) == ts # promised

\* _handle_prepare: message.timestamp > self.highest_promised_timestamp
PrepareGranted(ts, promised) == ts > promised

\* An ACCEPT test that honors every ballot.
AcceptGranted_any(ts, promised) == TRUE

\* _handle_accept: message.timestamp >= self.highest_promised_timestamp
AcceptGranted(ts, promised) == ts >= promised

\* _handle_accept leaves highest_promised_timestamp as it is.
PromisedAfterAccept(ts, promised) == promised

\* The PROMISE of _handle_prepare: the accepted pair when accepted_timestamp
\* is not None, no pair otherwise.
PromiseMessage(a, m) ==
  IF accepted_timestamp[a] # NoTimestamp
    THEN Message(PROMISE, m.timestamp, a, m.sender_id, None,
                 accepted_timestamp[a], accepted_operation[a])
    ELSE Message(PROMISE, m.timestamp, a, m.sender_id, None, NoTimestamp, None)

NackMessage(a, m) ==
  Message(NACK, m.timestamp, a, m.sender_id, None, NoTimestamp, None)

\* A LEARN broadcast that reaches the first learner only.
LearnMessages_first(a, m) ==
  {Message(LEARN, m.timestamp, a, LearnerId(1), m.operation, NoTimestamp, None)}

\* A LEARN broadcast that also answers the proposer of the ACCEPT.
LearnMessages_reply(a, m) ==
  {Message(LEARN, m.timestamp, a, l, m.operation, NoTimestamp, None) :
     l \in config.learners}
  \cup {Message(NACK, m.timestamp, a, m.sender_id, None, NoTimestamp, None)}

\* The LEARN messages of _handle_accept, one per learner of the roster.
LearnMessages(a, m) ==
  {Message(LEARN, m.timestamp, a, l, m.operation, NoTimestamp, None) :
     l \in config.learners}

\* Acceptor._process_message -> _handle_prepare
HandlePrepare(m) ==
  LET a == m.receiver_id IN
  /\ Deliverable(m)
  /\ a \in config.acceptors
  /\ m.msg_type = PREPARE
  /\ IF PrepareGranted(m.timestamp, highest_promised_timestamp[a])
       THEN /\ highest_promised_timestamp' =
                 [highest_promised_timestamp EXCEPT ![a] = m.timestamp]
            /\ ReceiveAndSend(m, {PromiseMessage(a, m)})
       ELSE /\ UNCHANGED highest_promised_timestamp
            /\ ReceiveAndSend(m, {NackMessage(a, m)})
  /\ UNCHANGED <<accepted_timestamp, accepted_operation, accept_log>>
  /\ UNCHANGED <<proposerVars, learnerVars, envVars>>
  /\ UNCHANGED threadVars

\* Acceptor._process_message -> _handle_accept
HandleAccept(m) ==
  LET a == m.receiver_id
      promised == highest_promised_timestamp[a]
      granted == AcceptGranted(m.timestamp, promised)
  IN
  /\ Deliverable(m)
  /\ a \in config.acceptors
  /\ m.msg_type = ACCEPT
  /\ accept_log' = accept_log \cup
       {[acceptor |-> a, timestamp |-> m.timestamp, operation |-> m.operation,
         promised |-> promised, honored |-> granted]}
  /\ IF granted
       THEN /\ accepted_timestamp' = [accepted_timestamp EXCEPT ![a] = m.timestamp]
            /\ accepted_operation' = [accepted_operation EXCEPT ![a] = m.operation]
            /\ highest_promised_timestamp' =
                 [highest_promised_timestamp EXCEPT
                    ![a] = PromisedAfterAccept(m.timestamp, promised)]
            /\ ReceiveAndSend(m, LearnMessages(a, m))
       ELSE /\ UNCHANGED <<accepted_timestamp, accepted_operation,
                           highest_promised_timestamp>>
            /\ ReceiveAndSend(m, {NackMessage(a, m)})
  /\ UNCHANGED <<proposerVars, learnerVars, envVars>>
  /\ UNCHANGED threadVars

\* -------------------------------------------------------------- learner
\* operation_key = (timestamp, operation)
OperationKey(m) == <<m.timestamp, m.operation>>

\* self.accepted_operations[operation_key].add(sender_id), the set created
\* when the key is new.
AddSender(table, key, sender) ==
  [k \in DOMAIN table \cup {key} |->
     IF k = key
       THEN (IF key \in DOMAIN table THEN table[key] ELSE {}) \cup {sender}
       ELSE table[k]]

\* A quorum test that half of the acceptors already passes.
LearnerQuorum_half(senders) == Cardinality(senders) >= AcceptorCount \div 2

\* len(self.accepted_operations[operation_key]) > len(self.acceptors) // 2
LearnerQuorum(senders) == Cardinality(senders) > AcceptorCount \div 2

\* A choice test that leaves out the chosen_operations test.
NewlyChosen_again(l, key, senders) == LearnerQuorum(senders)

\* The quorum test and: if operation_key not in self.chosen_operations
NewlyChosen(l, key, senders) ==
  /\ LearnerQuorum(senders)
  /\ key \notin chosen_operations[l]

\* Learner._process_message for a LEARN.  set_on_chosen_operation has been
\* called (main.py), so every newly chosen operation is passed to the callback.
HandleLearn(m) ==
  LET l == m.receiver_id
      key == OperationKey(m)
      table == AddSender(accepted_operations[l], key, m.sender_id)
  IN
  /\ Deliverable(m)
  /\ l \in config.learners
  /\ m.msg_type = LEARN
  /\ accepted_operations' = [accepted_operations EXCEPT ![l] = table]
  /\ IF NewlyChosen(l, key, table[key])
       THEN /\ chosen_operations' = [chosen_operations EXCEPT ![l] = @ \cup {key}]
            /\ chosen_operation_sequence' =
                 [chosen_operation_sequence EXCEPT ![l] = Append(@, m.operation)]
            /\ callback_log' = [callback_log EXCEPT ![l] = Append(@, m.operation)]
       ELSE UNCHANGED <<chosen_operations, chosen_operation_sequence, callback_log>>
  /\ ReceiveAndSend(m, {})
  /\ UNCHANGED <<proposerVars, acceptorVars, envVars>>
  /\ UNCHANGED threadVars

\* ------------------------------------------------------------ transport
\* Network._deliver_message: the receiver failed while the message was in
\* flight, and the message is dropped.
DropAtFailed(m) ==
  /\ BagIn(m, inflight)
  /\ m.receiver_id \in failed_nodes
  /\ inflight' = inflight (-) SetToBag({m})
  /\ UNCHANGED <<sent, proposerVars, acceptorVars, learnerVars, envVars>>
  /\ UNCHANGED threadVars

\* manually_fail_node (Network.simulate_node_failure: failed_nodes.add) for
\* the nodes of S that are up and manually_recover_node
\* (Network.simulate_node_recovery: failed_nodes.remove) for the failed nodes
\* outside S, called in a row by the driver.
Isolate(S) ==
  /\ NextCommand(IsolateCmd(S))
  /\ script' = Tail(script)
  /\ failed_nodes' = (failed_nodes \cup S) \ (failed_nodes \ S)
  /\ UNCHANGED <<config, message_loss, netVars, acceptorVars, learnerVars>>
  /\ UNCHANGED <<next_timestamp, active_proposals, proposal_lock, proposed,
                 counted_promises, accept_broadcasts>>
  /\ UNCHANGED threadVars

\* Node._listen receives a second copy of a datagram that was sent before and
\* is not in flight any more, and starts a handler thread for it.
Replay(m) ==
  /\ NextCommand(ReplayCmd(m.msg_type))
  /\ m \in sent
  /\ ~BagIn(m, inflight)
  /\ KnownReceiver(m)
  /\ script' = Tail(script)
  /\ inflight' = inflight (+) SetToBag({m})
  /\ UNCHANGED <<sent, config, message_loss, failed_nodes, acceptorVars, learnerVars>>
  /\ UNCHANGED <<next_timestamp, active_proposals, proposal_lock, proposed,
                 counted_promises, accept_broadcasts>>
  /\ UNCHANGED threadVars

\* Node._listen of a proposer receives a datagram that no node of the roster
\* sent through send_message, and starts a handler thread for it.
Stray(m) ==
  /\ NextCommand(StrayCmd(m.msg_type))
  /\ script' = Tail(script)
  /\ inflight' = inflight (+) SetToBag({m})
  /\ UNCHANGED <<sent, config, message_loss, failed_nodes, acceptorVars, learnerVars>>
  /\ UNCHANGED <<next_timestamp, active_proposals, proposal_lock, proposed,
                 counted_promises, accept_broadcasts>>
  /\ UNCHANGED threadVars

\* ------------------------------------------------------- worker threads
\* Node._listen starts a thread per datagram and Acceptor and Learner take no
\* lock, so the statements of two handlers of one node interleave.  A worker
\* is a handler thread that has been started and has statements left; pc names
\* the statement it executes next.  Statements that follow one another without
\* a read or write of a shared field in between are one step.
Worker(m, pc) == [msg |-> m, pc |-> pc]

Exit(w) == workers' = workers (-) SetToBag({w})

Resume(w, pc) == workers' = (workers (-) SetToBag({w})) (+) SetToBag({Worker(w.msg, pc)})

\* _handle_prepare, line 52: the test of highest_promised_timestamp; the NACK
\* of the else branch reads no field of the acceptor.
PrepareTest(m) ==
  LET a == m.receiver_id IN
  /\ Deliverable(m)
  /\ a \in config.acceptors
  /\ m.msg_type = PREPARE
  /\ IF PrepareGranted(m.timestamp, highest_promised_timestamp[a])
       THEN /\ workers' = workers (+) SetToBag({Worker(m, "promise")})
            /\ ReceiveAndSend(m, {})
       ELSE /\ UNCHANGED workers
            /\ ReceiveAndSend(m, {NackMessage(a, m)})
  /\ UNCHANGED <<acceptorVars, proposerVars, learnerVars, envVars, callers>>

\* _handle_prepare, lines 54-76: the write of highest_promised_timestamp, the
\* read of the accepted pair and the PROMISE.
PrepareGrant(w) ==
  LET m == w.msg
      a == m.receiver_id
  IN
  /\ BagIn(w, workers)
  /\ w.pc = "promise"
  /\ highest_promised_timestamp' =
       [highest_promised_timestamp EXCEPT ![a] = m.timestamp]
  /\ Send({PromiseMessage(a, m)})
  /\ Exit(w)
  /\ UNCHANGED <<accepted_timestamp, accepted_operation, accept_log>>
  /\ UNCHANGED <<proposerVars, learnerVars, envVars, callers>>

\* _handle_accept, line 94: the test of highest_promised_timestamp; the NACK
\* of the else branch reads no field of the acceptor.
AcceptTest(m) ==
  LET a == m.receiver_id
      promised == highest_promised_timestamp[a]
      granted == AcceptGranted(m.timestamp, promised)
  IN
  /\ Deliverable(m)
  /\ a \in config.acceptors
  /\ m.msg_type = ACCEPT
  /\ accept_log' = accept_log \cup
       {[acceptor |-> a, timestamp |-> m.timestamp, operation |-> m.operation,
         promised |-> promised, honored |-> granted]}
  /\ IF granted
       THEN /\ workers' = workers (+) SetToBag({Worker(m, "accepted_timestamp")})
            /\ ReceiveAndSend(m, {})
       ELSE /\ UNCHANGED workers
            /\ ReceiveAndSend(m, {NackMessage(a, m)})
  /\ UNCHANGED <<highest_promised_timestamp, accepted_timestamp, accepted_operation>>
  /\ UNCHANGED <<proposerVars, learnerVars, envVars, callers>>

\* _handle_accept, line 95: self.accepted_timestamp = message.timestamp
AcceptTimestamp(w) ==
  LET m == w.msg
      a == m.receiver_id
  IN
  /\ BagIn(w, workers)
  /\ w.pc = "accepted_timestamp"
  /\ accepted_timestamp' = [accepted_timestamp EXCEPT ![a] = m.timestamp]
  /\ Resume(w, "accepted_operation")
  /\ UNCHANGED <<highest_promised_timestamp, accepted_operation, accept_log>>
  /\ UNCHANGED <<netVars, proposerVars, learnerVars, envVars, callers>>

\* _handle_accept, lines 96-108: self.accepted_operation = message.operation
\* and the LEARN to every learner.
AcceptOperation(w) ==
  LET m == w.msg
      a == m.receiver_id
  IN
  /\ BagIn(w, workers)
  /\ w.pc = "accepted_operation"
  /\ accepted_operation' = [accepted_operation EXCEPT ![a] = m.operation]
  /\ Send(LearnMessages(a, m))
  /\ Exit(w)
  /\ UNCHANGED <<highest_promised_timestamp, accepted_timestamp, accept_log>>
  /\ UNCHANGED <<proposerVars, learnerVars, envVars, callers>>

\* Learner._process_message, lines 42-48: the sender is added to the set of
\* the key.
LearnRecord(m) ==
  LET l == m.receiver_id IN
  /\ Deliverable(m)
  /\ l \in config.learners
  /\ m.msg_type = LEARN
  /\ accepted_operations' =
       [accepted_operations EXCEPT ![l] = AddSender(@, OperationKey(m), m.sender_id)]
  /\ workers' = workers (+) SetToBag({Worker(m, "quorum")})
  /\ ReceiveAndSend(m, {})
  /\ UNCHANGED <<chosen_operations, chosen_operation_sequence, callback_log>>
  /\ UNCHANGED <<proposerVars, acceptorVars, envVars, callers>>

\* Learner._process_message, lines 51-53: the quorum test and the test of
\* chosen_operations.
LearnCheck(w) ==
  LET m == w.msg
      l == m.receiver_id
      key == OperationKey(m)
  IN
  /\ BagIn(w, workers)
  /\ w.pc = "quorum"
  /\ IF NewlyChosen(l, key, accepted_operations[l][key])
       THEN Resume(w, "chosen")
       ELSE Exit(w)
  /\ UNCHANGED <<netVars, proposerVars, acceptorVars, learnerVars, envVars, callers>>

\* Learner._process_message, lines 54-60: the key is added to
\* chosen_operations, the operation appended and passed to the callback.
LearnChoose(w) ==
  LET m == w.msg
      l == m.receiver_id
  IN
  /\ BagIn(w, workers)
  /\ w.pc = "chosen"
  /\ chosen_operations' = [chosen_operations EXCEPT ![l] = @ \cup {OperationKey(m)}]
  /\ chosen_operation_sequence' =
       [chosen_operation_sequence EXCEPT ![l] = Append(@, m.operation)]
  /\ callback_log' = [callback_log EXCEPT ![l] = Append(@, m.operation)]
  /\ Exit(w)
  /\ UNCHANGED <<accepted_operations, netVars, proposerVars, acceptorVars, envVars, callers>>

\* Proposer._get_next_timestamp, line 57, in a thread that calls propose(op):
\* the ballot is computed from the counter the thread reads.
GetNextTimestamp(p, op) ==
  /\ NextCommand(ProposeCmd(p, op))
  /\ script' = Tail(script)
  /\ callers' = callers \cup
       {[proposer |-> p, operation |-> op,
         timestamp |-> NextTimestamp(p, next_timestamp[p]), call |-> Len(script)]}
  /\ UNCHANGED <<next_timestamp, active_proposals, proposal_lock, proposed,
                 counted_promises, accept_broadcasts>>
  /\ UNCHANGED <<netVars, acceptorVars, learnerVars, envVars, workers>>

\* Proposer._get_next_timestamp, line 58, and the rest of propose: the counter
\* is advanced, the record registered under proposal_lock and PREPARE
\* broadcast.  A call made while a blocked handler holds proposal_lock never
\* returns and neither registers its record nor sends PREPARE.
ProposeRegister(c) ==
  LET p == c.proposer IN
  /\ c \in callers
  /\ callers' = callers \ {c}
  /\ next_timestamp' = [next_timestamp EXCEPT ![p] = @ + 1]
  /\ proposed' = proposed \cup
       {[proposer |-> p, timestamp |-> c.timestamp, operation |-> c.operation,
         reachable |-> config.acceptors \ failed_nodes]}
  /\ IF proposal_lock[p]
       THEN UNCHANGED <<active_proposals, netVars>>
       ELSE /\ active_proposals' =
                 [active_proposals EXCEPT
                    ![p] = Register(@, c.timestamp, NewProposal(c.operation, c.timestamp))]
            /\ Send(PrepareMessages(p, c.timestamp))
  /\ UNCHANGED <<proposal_lock, counted_promises, accept_broadcasts, script>>
  /\ UNCHANGED <<acceptorVars, learnerVars, envVars, workers>>

\* -------------------------------------------------------- specifications
\* The state after construction: Acceptor.__init__, Proposer.__init__,
\* Learner.__init__, Network.__init__.
InitNodes ==
  /\ failed_nodes = {}
  /\ inflight = EmptyBag
  /\ highest_promised_timestamp = [a \in AllAcceptors |-> InitialPromised]
  /\ accepted_timestamp = [a \in AllAcceptors |-> NoTimestamp]
  /\ accepted_operation = [a \in AllAcceptors |-> None]
  /\ next_timestamp = [p \in AllProposers |-> FirstCounter]
  /\ active_proposals = [p \in AllProposers |-> <<>>]
  /\ proposal_lock = [p \in AllProposers |-> FALSE]
  /\ accepted_operations = [l \in AllLearners |-> <<>>]
  /\ chosen_operations = [l \in AllLearners |-> {}]
  /\ chosen_operation_sequence = [l \in AllLearners |-> <<>>]
  /\ callback_log = [l \in AllLearners |-> <<>>]
  /\ proposed = {}
  /\ sent = {}
  /\ counted_promises = [p \in AllProposers |-> {}]
  /\ accept_broadcasts = {}
  /\ accept_log = {}
  /\ workers = EmptyBag
  /\ callers = {}

A1 == AcceptorId(1)
A2 == AcceptorId(2)
A3 == AcceptorId(3)
P1 == ProposerId(1)
P2 == ProposerId(2)

\* A run: the roster of the configuration file (--num-proposers,
\* --num-acceptors, --num-learners), --message-loss, and the driver's commands.
Scenario(np, na, nl, loss, cmds) ==
  [config |-> DefaultConfig(np, na, nl), message_loss |-> loss, script |-> cmds]

\* Two proposers compete on three acceptors, the first round with one acceptor cut
\* off.
Duel3 ==
  {Scenario(MaxProposers, MaxAcceptors, 1, FALSE,
     << IsolateCmd({A1}), ProposeCmd(P1, "a"), IsolateCmd({}), ProposeCmd(P2, "b") >>)}

\* One round on three acceptors and every learner over a lossy transport.
Single3 ==
  {Scenario(MaxProposers, MaxAcceptors, MaxLearners, TRUE,
     << ProposeCmd(P1, "a"), IsolateCmd({A1}) >>)}

\* Two acceptors: the higher ballot first, then the lower one, then the same
\* proposer again.
Duel2 ==
  {Scenario(MaxProposers, 2, 1, TRUE,
     << ProposeCmd(P2, "b"), ProposeCmd(P1, "a"), ProposeCmd(P1, "b") >>),
   Scenario(MaxProposers, 2, MaxLearners, FALSE,
     << ProposeCmd(P1, "a"), ProposeCmd(P2, "b") >>),
   Scenario(MaxProposers, 2, MaxLearners, FALSE,
     << ProposeCmd(P1, "a"), ProposeCmd(P1, "a") >>)}

\* Three ballots on three acceptors, each round with part of the acceptors
\* cut off.
Overwrite ==
  {Scenario(MaxProposers, MaxAcceptors, 1, FALSE,
     << IsolateCmd({A3}), ProposeCmd(P1, "a"), IsolateCmd({A1, A2}), IsolateCmd({A3}),
        ProposeCmd(P2, "b"), IsolateCmd({A2}), IsolateCmd({A1}), ProposeCmd(P2, "b") >>)}

Acceptors(n) == {AcceptorId(i) : i \in 1..n}

\* Calls made while no strict majority of the acceptors is up.
MajorityDown ==
  UNION {{Scenario(MaxProposers, n, MaxLearners, loss,
            << IsolateCmd(S), ProposeCmd(P1, "a"), ProposeCmd(P2, "b"), IsolateCmd({}) >>) :
            S \in {T \in SUBSET Acceptors(n) : 2 * Cardinality(Acceptors(n) \ T) <= n}} :
         n \in 1..MaxAcceptors, loss \in BOOLEAN}

Scenarios == Duel3 \cup Single3 \cup Duel2 \cup Overwrite \cup MajorityDown

\* One proposer, one call, no loss, some acceptors failed before the call.
OneCall ==
  UNION {{Scenario(1, n, l, FALSE, << IsolateCmd(S), ProposeCmd(P1, op) >>) :
            S \in SUBSET Acceptors(n), op \in Operations} :
         n \in 1..MaxAcceptors, l \in 1..MaxLearners}

\* Runs in which datagrams are received twice.
Replays ==
  {Scenario(MaxProposers, MaxAcceptors, 1, FALSE,
     << ProposeCmd(P1, "a"), ReplayCmd(PREPARE), IsolateCmd({A3}) >>),
   Scenario(MaxProposers, MaxAcceptors, 1, FALSE,
     << ProposeCmd(P1, "a"), ReplayCmd(PROMISE), ReplayCmd(ACCEPT) >>),
   Scenario(MaxProposers, MaxAcceptors, MaxLearners, FALSE,
     << ProposeCmd(P1, "a"), ReplayCmd(LEARN) >>),
   Scenario(MaxProposers, 2, 1, TRUE,
     << ProposeCmd(P1, "a"), ProposeCmd(P2, "b"), ReplayCmd(PROMISE), ReplayCmd(NACK) >>)}

\* Runs in which a proposer receives a datagram of a kind it does not handle.
Strays ==
  {Scenario(MaxProposers, 2, 1, FALSE, << ProposeCmd(P1, "a"), StrayCmd(type) >>) :
     type \in {PREPARE, ACCEPT, LEARN}}
  \cup {Scenario(MaxProposers, 2, 1, FALSE,
          << IsolateCmd({A2}), ProposeCmd(P1, "a"), StrayCmd(LEARN), IsolateCmd({}) >>)}

Start(scenarios) ==
  /\ InitNodes
  /\ \E s \in scenarios :
        /\ config = s.config
        /\ message_loss = s.message_loss
        /\ script = s.script

Init == Start(Scenarios)

DeliverMessage(m) ==
  \/ HandlePrepare(m)
  \/ HandleAccept(m)
  \/ HandlePromise(m)
  \/ HandleNack(m)
  \/ HandleForeign(m)
  \/ ProposerDrop(m)
  \/ ProposerBlocked(m)
  \/ HandleLearn(m)
  \/ DropAtFailed(m)

Deliver == \E m \in BagToSet(inflight) : DeliverMessage(m)

Call == \E p \in config.proposers, op \in Operations : Propose(p, op)

Fail == \E S \in SUBSET config.acceptors : Isolate(S)

Next == Call \/ Fail \/ Deliver

Spec == Init /\ [][Next]_vars

\* Every message in flight is eventually delivered (threading.Timer in
\* Network.send_message, a worker thread per datagram in Node._listen).
FairSpec == Start(OneCall) /\ [][Next]_vars /\ WF_vars(Deliver)

Resend == \E m \in sent : Replay(m)

ReplayNext == Next \/ Resend

ReplaySpec == Start(Replays) /\ [][ReplayNext]_vars

\* The datagrams a stray can be: any kind but PROMISE and NACK, from the
\* address of an acceptor, for a ballot some proposer has used or will use next.
StrayMessages ==
  {Message(type, t, a, p, IF type = PREPARE THEN None ELSE "b", NoTimestamp, None) :
     type \in {PREPARE, ACCEPT, LEARN},
     t \in {c.timestamp : c \in proposed} \cup {NextTimestamp(q, next_timestamp[q]) : q \in config.proposers},
     a \in config.acceptors, p \in config.proposers}

Misdeliver == \E m \in StrayMessages : Stray(m)

StrayNext == Next \/ Misdeliver

StraySpec == Start(Strays) /\ [][StrayNext]_vars

\* Runs followed statement by statement: two proposers on one acceptor, one
\* proposer on two acceptors, and two calls of one proposer.
Threads ==
  {Scenario(MaxProposers, 1, 1, FALSE, << ProposeCmd(P1, "a"), ProposeCmd(P2, "b") >>),
   Scenario(MaxProposers, 2, 1, FALSE, << ProposeCmd(P1, "a") >>),
   Scenario(MaxProposers, 1, 1, FALSE, << ProposeCmd(P1, "a"), ProposeCmd(P1, "b") >>)}

\* A thread calls propose.
Invoke == \E p \in config.proposers, op \in Operations : GetNextTimestamp(p, op)

\* A propose call runs to its end.
Return == \E c \in callers : ProposeRegister(c)

\* Node._listen starts the handler thread of a datagram, which runs to its
\* first read of a shared field; a proposer's handler runs under
\* proposal_lock from its first statement to its last.
Listen ==
  \E m \in BagToSet(inflight) :
    \/ PrepareTest(m)
    \/ AcceptTest(m)
    \/ LearnRecord(m)
    \/ HandlePromise(m)
    \/ HandleNack(m)
    \/ HandleForeign(m)
    \/ ProposerDrop(m)
    \/ ProposerBlocked(m)

\* A handler thread executes its next statements.
Run ==
  \E w \in BagToSet(workers) :
    \/ PrepareGrant(w)
    \/ AcceptTimestamp(w)
    \/ AcceptOperation(w)
    \/ LearnCheck(w)
    \/ LearnChoose(w)

ThreadNext == Invoke \/ Return \/ Listen \/ Run

ThreadSpec == Start(Threads) /\ [][ThreadNext]_vars

\* ------------------------------------------------------------ properties
\* The acceptors a learner has been sent LEARN(t, v) by.
LearnSenders(l, key) ==
  {a \in config.acceptors :
     Message(LEARN, key[1], a, l, key[2], NoTimestamp, None) \in sent}

\* The ballots of the propose calls made so far.
Ballots == {c.timestamp : c \in proposed}

\* The step takes a copy of m out of the transport.
Handled(m) == CopiesIn(m, inflight') < CopiesIn(m, inflight)

\* C1. Chosen uniqueness: the keys declared chosen, by any learners and at any
\* ballots, all carry the same operation.
ChosenUniqueness ==
  \A l1, l2 \in config.learners :
    \A k1 \in chosen_operations[l1], k2 \in chosen_operations[l2] : k1[2] = k2[2]

AcceptedWithinPromise ==
  \A a \in config.acceptors :
    accepted_timestamp[a] # NoTimestamp =>
      accepted_timestamp[a] <= highest_promised_timestamp[a]

\* The pairs with a ballot below t that the PROMISEs counted for a broadcast
\* reported.
PriorReports(b) ==
  {m \in b.promises : /\ m.accepted_timestamp # NoTimestamp
                      /\ m.accepted_timestamp < b.timestamp}

\* C4. Pick-highest: the operation of every ACCEPT(t, v) broadcast is the
\* operation of the largest accepted ballot below t that a PROMISE for t
\* reported, and the operation of the propose call when no PROMISE reported one.
PickHighest ==
  \A b \in accept_broadcasts :
    IF PriorReports(b) = {}
      THEN b.operation = b.original
      ELSE \E m \in PriorReports(b) :
             /\ \A r \in PriorReports(b) : r.accepted_timestamp <= m.accepted_timestamp
             /\ b.operation = m.accepted_operation

\* C5 as stated. Every chosen key was sent to its learner as LEARN by at least
\* ceil(N/2)+1 distinct acceptors.
CeilingQuorum ==
  \A l \in config.learners : \A key \in chosen_operations[l] :
    Cardinality(LearnSenders(l, key)) >= (AcceptorCount + 1) \div 2 + 1

\* C5. Every chosen key was sent to its learner as LEARN by at least
\* floor(N/2)+1 distinct acceptors, a strict majority of the N acceptors.
MajorityQuorum ==
  \A l \in config.learners : \A key \in chosen_operations[l] :
    Cardinality(LearnSenders(l, key)) >= AcceptorCount \div 2 + 1

\* A learner of three acceptors has chosen a key that two of them sent.
MajorityQuorumWitness ==
  /\ AcceptorCount = 3
  /\ \E l \in config.learners : \E key \in chosen_operations[l] :
        Cardinality(accepted_operations[l][key]) = 2

\* C6. Agreement: two keys chosen at the same ballot, by any two learners,
\* carry the same operation.
Agreement ==
  \A l1, l2 \in config.learners :
    \A k1 \in chosen_operations[l1], k2 \in chosen_operations[l2] :
      k1[1] = k2[1] => k1[2] = k2[2]

\* Two different learners have chosen at the same ballot, after a competing
\* ballot was broadcast too.
AgreementWitness ==
  \E l1, l2 \in config.learners :
    /\ l1 # l2
    /\ \E k1 \in chosen_operations[l1], k2 \in chosen_operations[l2] : k1[1] = k2[1]
    /\ Cardinality(accept_broadcasts) >= 2

\* C7. Non-triviality: every operation of a chosen-sequence is the argument of
\* a propose call made before.
NonTriviality ==
  \A l \in config.learners : \A i \in DOMAIN chosen_operation_sequence[l] :
    \E c \in proposed : c.operation = chosen_operation_sequence[l][i]

\* A learner has chosen, at some ballot, an operation that is not the one the
\* propose call of that ballot was given.
NonTrivialityWitness ==
  \E l \in config.learners : \E key \in chosen_operations[l] :
    \E c \in proposed : c.timestamp = key[1] /\ c.operation # key[2]

\* C8. Liveness with a reachable majority: after the one propose(op) call of
\* the one proposer, made over a lossless transport while at least
\* ceil((N+1)/2) of the N acceptors are up, every learner's chosen-sequence is
\* eventually <<op>>.
MajorityUpChooses ==
  \A op \in Operations :
    (\E c \in proposed :
        /\ c.operation = op
        /\ Cardinality(c.reachable) >= (AcceptorCount + 2) \div 2)
    ~> (\A l \in config.learners : chosen_operation_sequence[l] = <<op>>)

\* Exactly two of three acceptors were up at the call, and both learners have
\* the sequence of that one operation.
MajorityUpChoosesWitness ==
  /\ Cardinality(config.learners) = 2
  /\ \E c \in proposed :
        /\ AcceptorCount = 3
        /\ Cardinality(c.reachable) = 2
        /\ \A l \in config.learners : chosen_operation_sequence[l] = <<c.operation>>

\* C9. With fewer than a strict majority of the acceptors up at every propose
\* call made so far, every chosen-sequence is empty and every call's record is
\* registered in phase 1.
MajorityDownStalls ==
  (/\ proposed # {}
   /\ \A c \in proposed : 2 * Cardinality(c.reachable) <= AcceptorCount)
  => /\ \A l \in config.learners : chosen_operation_sequence[l] = <<>>
     /\ \A c \in proposed :
          /\ c.timestamp \in DOMAIN active_proposals[c.proposer]
          /\ active_proposals[c.proposer][c.timestamp].phase = 1

\* One of three acceptors was up at the calls, its PROMISE has been counted, and
\* nothing is left in flight.
MajorityDownStallsWitness ==
  /\ AcceptorCount = 3
  /\ proposed # {}
  /\ \A c \in proposed : Cardinality(c.reachable) = 1
  /\ \E c \in proposed : active_proposals[c.proposer][c.timestamp].promises = 1
  /\ script = <<>>
  /\ inflight = EmptyBag

\* The acceptors that had promised a ballot above t when ACCEPT(t, v) reached
\* them.
Rejectors(t) ==
  {e.acceptor : e \in {x \in accept_log : x.timestamp = t /\ x.promised > t}}

Abandonment ==
  \A p \in config.proposers :
    /\ ~proposal_lock[p]
    /\ \A t \in DOMAIN active_proposals[p] :
          active_proposals[p][t].nacks <= active_proposals[p][t].acceptor_count \div 2

\* C12. A proposer broadcasts ACCEPT at most once for a ballot: the
\* _send_accept calls made for one ballot are one call.
SingleAcceptBroadcast ==
  \A b1, b2 \in accept_broadcasts : b1.timestamp = b2.timestamp => b1 = b2

\* A record of three acceptors is in phase 2 and has counted the PROMISE of all
\* three, the last one after the ACCEPT broadcast.
SingleAcceptBroadcastWitness ==
  \E b \in accept_broadcasts :
    /\ Cardinality(b.promises) = 2
    /\ active_proposals[b.proposer][b.timestamp].phase = 2
    /\ active_proposals[b.proposer][b.timestamp].promises = 3

\* C13. A PROMISE(t) delivered to a proposer from an acceptor that is already
\* in the responded_acceptors of the record of t leaves the record (promises,
\* nacks, highest accepted pair, phase) as it is and sends no message.
DuplicatePromiseDropped ==
  [][\A m \in BagToSet(inflight) :
       LET p == m.receiver_id IN
       (/\ m.msg_type = PROMISE
        /\ Handled(m)
        /\ p \in config.proposers
        /\ m.timestamp \in DOMAIN active_proposals[p]
        /\ m.sender_id \in active_proposals[p][m.timestamp].responded_acceptors)
       => /\ active_proposals'[p] = active_proposals[p]
          /\ sent' = sent
          /\ inflight' = inflight (-) SetToBag({m})]_vars

\* The second copy of a PROMISE has been handled: the replay was made, no PROMISE
\* is in flight, and the record of three acceptors counts three promises.
DuplicatePromiseDroppedWitness ==
  /\ script = << ReplayCmd(ACCEPT) >>
  /\ \A m \in BagToSet(inflight) : m.msg_type # PROMISE
  /\ \E c \in proposed :
        /\ active_proposals[c.proposer][c.timestamp].promises = 3
        /\ active_proposals[c.proposer][c.timestamp].acceptor_count = 3

\* C14. A LEARN(t, v) delivered to a learner from an acceptor that is already
\* in the sender set of (t, v) neither grows the chosen-sequence nor calls the
\* on-chosen callback.
DuplicateLearnIgnored ==
  [][\A m \in BagToSet(inflight) :
       LET l == m.receiver_id IN
       (/\ m.msg_type = LEARN
        /\ Handled(m)
        /\ l \in config.learners
        /\ OperationKey(m) \in DOMAIN accepted_operations[l]
        /\ m.sender_id \in accepted_operations[l][OperationKey(m)])
       => /\ chosen_operation_sequence'[l] = chosen_operation_sequence[l]
          /\ callback_log'[l] = callback_log[l]]_vars

\* The second copy of a LEARN has been handled: the replay was made, no LEARN
\* is in flight, and both learners have chosen exactly once.
DuplicateLearnIgnoredWitness ==
  /\ Cardinality(config.learners) = 2
  /\ script = <<>>
  /\ \E m \in sent : m.msg_type = LEARN
  /\ \A m \in BagToSet(inflight) : m.msg_type # LEARN
  /\ \A l \in config.learners :
        /\ Len(chosen_operation_sequence[l]) = 1
        /\ callback_log[l] = chosen_operation_sequence[l]

\* C15. Ballot generation: the ballot of a propose call is above every ballot
\* the same proposer minted before, differs from every ballot of another
\* proposer, and is ordinal*1000000+1 for the first call of a proposer.
BallotGeneration ==
  [][\A c \in proposed' \ proposed :
       /\ \A e \in proposed :
            IF e.proposer = c.proposer
              THEN c.timestamp > e.timestamp
              ELSE c.timestamp # e.timestamp
       /\ (\A e \in proposed : e.proposer # c.proposer)
            => c.timestamp = NodeNumber(c.proposer) * 1000000 + 1]_vars

\* Two proposers have made three calls, one of them two.
BallotGenerationWitness ==
  /\ Cardinality(proposed) = 3
  /\ Cardinality({c.timestamp : c \in proposed}) = 3
  /\ Cardinality({c.proposer : c \in proposed}) = 2

\* The three fields of acceptor a are the same after the step.
AcceptorUnchanged(a) ==
  /\ highest_promised_timestamp'[a] = highest_promised_timestamp[a]
  /\ accepted_timestamp'[a] = accepted_timestamp[a]
  /\ accepted_operation'[a] = accepted_operation[a]

\* The step hands m to the handler of acceptor a.
HandledBy(a, m, type) ==
  /\ m.msg_type = type
  /\ m.receiver_id = a
  /\ a \notin failed_nodes
  /\ Handled(m)

\* The step sends the messages of msgs and nothing else; over a lossless
\* transport each of them once.
SendsOnly(m, msgs) ==
  /\ msgs \subseteq sent'
  /\ sent' \ sent \subseteq msgs
  /\ ~message_loss => inflight' = (inflight (-) SetToBag({m})) (+) SetToBag(msgs)

\* C16. Accept safety: the accepted pair of an acceptor changes only in a step
\* that handles an ACCEPT(t, v) with t >= highest_promised_timestamp, and
\* becomes (t, v); a step that handles ACCEPT(t, v) with
\* t < highest_promised_timestamp sends NACK(t) to the sender and nothing else
\* and leaves the acceptor's three fields as they are.
AcceptFrame ==
  [][\A a \in config.acceptors :
       /\ (\/ accepted_timestamp'[a] # accepted_timestamp[a]
           \/ accepted_operation'[a] # accepted_operation[a])
          => \E m \in BagToSet(inflight) :
               /\ HandledBy(a, m, ACCEPT)
               /\ m.timestamp >= highest_promised_timestamp[a]
               /\ accepted_timestamp'[a] = m.timestamp
               /\ accepted_operation'[a] = m.operation
       /\ \A m \in BagToSet(inflight) :
            (HandledBy(a, m, ACCEPT) /\ m.timestamp < highest_promised_timestamp[a])
            => /\ AcceptorUnchanged(a)
               /\ SendsOnly(m, {Message(NACK, m.timestamp, a, m.sender_id,
                                        None, NoTimestamp, None)})]_vars

\* An acceptor that holds an accepted pair has refused the ACCEPT of a ballot
\* below its promise.
AcceptFrameWitness ==
  \E e \in accept_log :
    /\ ~e.honored
    /\ e.promised > e.timestamp
    /\ accepted_timestamp[e.acceptor] # NoTimestamp
    /\ accepted_timestamp[e.acceptor] # e.timestamp

\* C17. Transport isolation: a message taken out of the transport while its
\* receiver is in failed_nodes reaches no handler (no node's state changes and
\* nothing is sent), and a message handed to a handler was not sent by a node
\* that is in failed_nodes.
TransportIsolation ==
  [][\A m \in BagToSet(inflight) :
       Handled(m) =>
         IF m.receiver_id \in failed_nodes
           THEN UNCHANGED <<sent, acceptorVars, learnerVars, active_proposals>>
           ELSE m.sender_id \notin failed_nodes]_vars

\* The PROMISE(t) of acceptor a to the sender of m that carries the pair a
\* holds, if it holds one.
PromiseOf(a, m) ==
  IF accepted_timestamp[a] # NoTimestamp
    THEN Message(PROMISE, m.timestamp, a, m.sender_id, None,
                 accepted_timestamp[a], accepted_operation[a])
    ELSE Message(PROMISE, m.timestamp, a, m.sender_id, None, NoTimestamp, None)

\* C18. A step that handles PREPARE(t) with t <= highest_promised_timestamp
\* sends NACK(t) to the sender and leaves the acceptor's three fields as they
\* are; with t > highest_promised_timestamp it sets
\* highest_promised_timestamp to t, leaves the accepted pair, and sends
\* PROMISE(t) with the accepted pair iff one is set.
PrepareFrame ==
  [][\A a \in config.acceptors : \A m \in BagToSet(inflight) :
       HandledBy(a, m, PREPARE) =>
         IF m.timestamp <= highest_promised_timestamp[a]
           THEN /\ AcceptorUnchanged(a)
                /\ SendsOnly(m, {Message(NACK, m.timestamp, a, m.sender_id,
                                         None, NoTimestamp, None)})
           ELSE /\ highest_promised_timestamp'[a] = m.timestamp
                /\ accepted_timestamp'[a] = accepted_timestamp[a]
                /\ accepted_operation'[a] = accepted_operation[a]
                /\ SendsOnly(m, {PromiseOf(a, m)})]_vars

\* An acceptor has answered a PREPARE of the ballot it had promised, the tie,
\* with NACK.
PrepareFrameWitness ==
  \E a \in config.acceptors : \E m \in sent :
    /\ m.msg_type = NACK
    /\ m.sender_id = a
    /\ m.timestamp = highest_promised_timestamp[a]
    /\ \A x \in BagToSet(inflight) : x.msg_type # PREPARE

\* C19. A step that handles PREPARE(t) again, at an acceptor that has answered
\* PREPARE(t) with a PROMISE and is in the state it was in after that, leaves
\* the acceptor's three fields as they are and sends that PROMISE once more.
RepeatedPrepareIdempotent ==
  [][\A a \in config.acceptors : \A m \in BagToSet(inflight) :
       (/\ HandledBy(a, m, PREPARE)
        /\ m.timestamp = highest_promised_timestamp[a]
        /\ PromiseOf(a, m) \in sent)
       => /\ AcceptorUnchanged(a)
          /\ sent' = sent
          /\ ~message_loss =>
                inflight' = (inflight (-) SetToBag({m})) (+) SetToBag({PromiseOf(a, m)})]_vars

\* C20. A step that handles an ACCEPT(t, v) with
\* t >= highest_promised_timestamp sends LEARN(t, v) to every learner of the
\* roster, once each, and sends nothing else: no message goes to the proposer
\* that sent the ACCEPT.
LearnBroadcast ==
  [][\A a \in config.acceptors : \A m \in BagToSet(inflight) :
       (HandledBy(a, m, ACCEPT) /\ m.timestamp >= highest_promised_timestamp[a])
       => /\ SendsOnly(m, {Message(LEARN, m.timestamp, a, l, m.operation,
                                   NoTimestamp, None) : l \in config.learners})
          /\ \A x \in sent' \ sent : x.receiver_id # m.sender_id]_vars

\* An acceptor of a roster with two learners has honored an ACCEPT and its
\* LEARN for each of them is on record.
LearnBroadcastWitness ==
  /\ Cardinality(config.learners) = MaxLearners
  /\ \E e \in accept_log :
       /\ e.honored
       /\ \A l \in config.learners :
            \E x \in sent : /\ x.msg_type = LEARN
                            /\ x.sender_id = e.acceptor
                            /\ x.receiver_id = l
                            /\ x.timestamp = e.timestamp
                            /\ x.operation = e.operation

\* C26. Crash: a step that marks an acceptor failed leaves it with
\* highest_promised_timestamp at its initial value and without an accepted
\* pair.
CrashLosesState ==
  [][\A a \in config.acceptors :
       (a \in failed_nodes' /\ a \notin failed_nodes)
       => /\ highest_promised_timestamp'[a] = InitialPromised
          /\ accepted_timestamp'[a] = NoTimestamp
          /\ accepted_operation'[a] = None]_vars

\* C27. No deadlock on proposal_lock: no handler keeps the lock for ever, and
\* every propose call made so far has registered its record and broadcast its
\* PREPARE.
LockReleased ==
  /\ \A p \in config.proposers : ~proposal_lock[p]
  /\ \A c \in proposed :
       PrepareMessages(c.proposer, c.timestamp) \subseteq sent

\* C28. No step replaces the accepted_timestamp of an acceptor by a lower
\* one.
AcceptedMonotone ==
  [][\A a \in config.acceptors :
       accepted_timestamp[a] # NoTimestamp
       => accepted_timestamp'[a] >= accepted_timestamp[a]]_vars

\* C29. In every proposal record promises + nacks is the number of
\* responded_acceptors and at most acceptor_count, so that no record holds both
\* a majority of promises and a majority of nacks; and a step that hands a
\* proposer the NACK(t) of an acceptor whose PROMISE(t) it has counted changes
\* no record.
ResponseCount ==
  /\ [](\A p \in config.proposers : \A t \in DOMAIN active_proposals[p] :
          LET pd == active_proposals[p][t] IN
          /\ pd.promises + pd.nacks = Cardinality(pd.responded_acceptors)
          /\ Cardinality(pd.responded_acceptors) <= pd.acceptor_count
          /\ ~(/\ pd.promises > pd.acceptor_count \div 2
               /\ pd.nacks > pd.acceptor_count \div 2))
  /\ [][\A m \in BagToSet(inflight) :
          (/\ Handled(m)
           /\ m.msg_type = NACK
           /\ m.receiver_id \in config.proposers
           /\ \E c \in counted_promises[m.receiver_id] :
                 c.sender_id = m.sender_id /\ c.timestamp = m.timestamp)
          => UNCHANGED <<active_proposals, proposal_lock>>]_vars

\* Over a lossless transport a proposer has been handed the NACK(t) of an
\* acceptor whose PROMISE(t) it had counted, and the record of t has no nack.
ResponseCountWitness ==
  /\ ~message_loss
  /\ \E p \in config.proposers : \E m \in sent :
       /\ m.msg_type = NACK
       /\ m.receiver_id = p
       /\ ~BagIn(m, inflight)
       /\ ~proposal_lock[p]
       /\ \E c \in counted_promises[p] :
             c.sender_id = m.sender_id /\ c.timestamp = m.timestamp
       /\ m.timestamp \in DOMAIN active_proposals[p]
       /\ active_proposals[p][m.timestamp].nacks = 0

\* C30. One value per ballot: the ACCEPTs sent for one ballot carry one
\* operation, so do the LEARNs sent for one ballot, and the keys a learner
\* holds for one ballot carry one operation.
OneValuePerBallot ==
  /\ \A m1, m2 \in sent :
       (/\ m1.msg_type \in {ACCEPT, LEARN}
        /\ m1.msg_type = m2.msg_type
        /\ m1.timestamp = m2.timestamp)
       => m1.operation = m2.operation
  /\ \A l \in config.learners :
       \A k1, k2 \in DOMAIN accepted_operations[l] : k1[1] = k2[1] => k1[2] = k2[2]

\* A learner holds keys of two ballots with different operations, each sent
\* to it by two acceptors.
OneValuePerBallotWitness ==
  \E l \in config.learners :
    \E k1, k2 \in DOMAIN accepted_operations[l] :
      /\ k1[1] # k2[1]
      /\ k1[2] # k2[2]
      /\ Cardinality(accepted_operations[l][k1]) >= 2
      /\ Cardinality(accepted_operations[l][k2]) >= 2

\* C25. A step that hands a proposer a message that is neither PROMISE nor
\* NACK, or a message of a ballot that is not an active proposal, changes no
\* proposal record and sends nothing.
ForeignDropped ==
  [][\A m \in BagToSet(inflight) :
       (/\ Handled(m)
        /\ m.receiver_id \in config.proposers
        /\ \/ m.msg_type \notin {PROMISE, NACK}
           \/ m.timestamp \notin DOMAIN active_proposals[m.receiver_id])
       => UNCHANGED <<active_proposals, sent>>]_vars

\* C21. The acceptor's compare-and-update is mutually exclusive: the
\* highest_promised_timestamp of an acceptor is never below the ballot of a
\* PROMISE it has sent, and an acceptor that decides to honor ACCEPT(t1) has
\* sent no PROMISE(t2) with t2 > t1.
GuardedPromise ==
  /\ [](\A m \in sent :
          m.msg_type = PROMISE
          => highest_promised_timestamp[m.sender_id] >= m.timestamp)
  /\ [][\A e \in accept_log' \ accept_log :
          e.honored
          => \A m \in sent :
               (m.msg_type = PROMISE /\ m.sender_id = e.acceptor)
               => m.timestamp <= e.timestamp]_vars

\* C22. The accepted pair is written atomically: the accepted pair of an
\* acceptor is absent or the (ballot, operation) of one ACCEPT the acceptor
\* honored, and so is the pair of every PROMISE sent.
AtomicPair ==
  /\ \A a \in config.acceptors :
       \/ accepted_timestamp[a] = NoTimestamp /\ accepted_operation[a] = None
       \/ \E e \in accept_log :
            /\ e.honored
            /\ e.acceptor = a
            /\ e.timestamp = accepted_timestamp[a]
            /\ e.operation = accepted_operation[a]
  /\ \A m \in sent :
       m.msg_type = PROMISE
       => \/ m.accepted_timestamp = NoTimestamp /\ m.accepted_operation = None
          \/ \E e \in accept_log :
               /\ e.honored
               /\ e.acceptor = m.sender_id
               /\ e.timestamp = m.accepted_timestamp
               /\ e.operation = m.accepted_operation

\* C23. The learner's test-and-insert is mutually exclusive: a learner has
\* appended to its sequence, and passed to the callback, one operation per key
\* of chosen_operations.
ChosenOnce ==
  \A l \in config.learners :
    /\ Len(chosen_operation_sequence[l]) = Cardinality(chosen_operations[l])
    /\ Len(callback_log[l]) = Cardinality(chosen_operations[l])

\* C24. Ballots are not reused by overlapping calls: a propose call that
\* registers its record has a ballot that no call has returned and that is not
\* a key of active_proposals.
FreshBallot ==
  [][\A c \in callers \ callers' :
       /\ c.timestamp \notin Ballots
       /\ c.timestamp \notin DOMAIN active_proposals[c.proposer]]_vars

====
